---------------------------- MODULE Spec2Model ----------------------------
(***************************************************************************)
(* Model of the nw-ota bundle update engine (src/src/index.ts):            *)
(* BundleUpdater.checkForUpdate, BundleUpdater.replace and the filesystem  *)
(* helpers removePath, removeDirectoryContents and copyDirectory.          *)
(*                                                                         *)
(* A directory tree is a node: an absent path, a file with its data, or a  *)
(* directory with a function from entry names to nodes.  The persisted OTA *)
(* version is the "ota" key of <bundlePath>/package.json, as in the code.  *)
(*                                                                         *)
(* Scope of the fault model: every filesystem or network step of the code  *)
(* may fail where the code awaits or calls it.  Of the user callbacks only *)
(* onNeedRestart (the restart notification) may throw; the others return.  *)
(* A failing copyFileSync leaves no partial file; a failing recursive      *)
(* remove leaves a subset of the top-level entries.  Every download uses a *)
(* fresh random file name, so the temporary paths of a call start absent.  *)
(* Date.now() is taken to differ between two backups.                      *)
(***************************************************************************)
EXTENDS Integers, Sequences, FiniteSets, TLC

(***************************************************************************)
(* Bounds of the model.                                                    *)
(***************************************************************************)
MaxVersion == 2
MaxManifestLen == 2
MaxRetries == 3
MaxPublishes == 4

(***************************************************************************)
(* Program constants.                                                      *)
(***************************************************************************)
DefaultRetries == 3
DefaultDelay == 100

(***************************************************************************)
(* Filesystem nodes.                                                       *)
(***************************************************************************)
NoData == [json |-> FALSE, ota |-> -1, tag |-> "none"]

EmptyEntries == [n \in {} |-> 0]

Absent == [kind |-> "absent", data |-> NoData, entries |-> EmptyEntries]

File(d) == [kind |-> "file", data |-> d, entries |-> EmptyEntries]

Dir(e) == [kind |-> "dir", data |-> NoData, entries |-> e]

Exists(node) == node.kind # "absent"

Names(node) == DOMAIN node.entries

\* readdirSync order of the entry names
NameOrder == <<"a.txt", "app", "b.txt", "c.txt", "package.json", "sub">>

Ordered(S) == SelectSeq(NameOrder, LAMBDA n : n \in S)

\* the directory node with entry n set to child
Put(node, n, child) ==
    Dir([m \in Names(node) \cup {n} |-> IF m = n THEN child ELSE node.entries[m]])

\* the directory node with only the entries named in keep
Restrict(node, keep) ==
    Dir([m \in Names(node) \cap keep |-> node.entries[m]])

\* data of a text file
Text(t) == [json |-> FALSE, ota |-> -1, tag |-> t]

\* data of a package.json that parses; ota = -1 when it has no numeric "ota" key,
\* tag stands for its other keys
PkgJson(v, t) == [json |-> TRUE, ota |-> v, tag |-> t]

(***************************************************************************)
(* copyDirectory: left is the number of copyFileSync calls that succeed    *)
(* before the injected failure; FileCount(source) or more means none.      *)
(***************************************************************************)
RECURSIVE CopyDirectory(_, _, _)
RECURSIVE CopyEntries(_, _, _, _)

\* faulty variant of CopyEntries: a subdirectory is created but not copied into
CopyEntriesFlat(es, names, dst, left) ==
    IF names = <<>>
    THEN [node |-> dst, left |-> left, ok |-> TRUE]
    ELSE LET n == Head(names)
             e == es[n]
         IN  IF e.kind = "dir"
             THEN CopyEntries(es, Tail(names), Put(dst, n, Dir(EmptyEntries)), left)
             ELSE IF left = 0
                  THEN [node |-> dst, left |-> left, ok |-> FALSE]
                  ELSE CopyEntries(es, Tail(names), Put(dst, n, e), left - 1)

CopyEntries(es, names, dst, left) ==
    IF names = <<>>
    THEN [node |-> dst, left |-> left, ok |-> TRUE]
    ELSE LET n == Head(names)
             e == es[n]
             cur == IF n \in Names(dst) THEN dst.entries[n] ELSE Absent
         IN  IF e.kind = "dir"
             THEN LET r == CopyDirectory(e, cur, left)
                      d2 == Put(dst, n, r.node)
                  IN  IF r.ok
                      THEN CopyEntries(es, Tail(names), d2, r.left)
                      ELSE [node |-> d2, left |-> r.left, ok |-> FALSE]
             ELSE IF left = 0 \/ cur.kind = "dir"
                  THEN [node |-> dst, left |-> left, ok |-> FALSE]
                  ELSE CopyEntries(es, Tail(names), Put(dst, n, e), left - 1)

CopyDirectory(source, destination, left) ==
    LET dst == IF Exists(destination) THEN destination ELSE Dir(EmptyEntries)
    IN  IF source.kind # "dir"
        THEN \* readdirSync(source) throws
             [node |-> dst, left |-> left, ok |-> FALSE]
        ELSE IF dst.kind # "dir"
        THEN \* existsSync is true of a file: no mkdirSync, and the first entry
             \* of source cannot be written below it
             [node |-> dst, left |-> left, ok |-> Names(source) = {}]
        ELSE CopyEntries(source.entries, Ordered(Names(source)), dst, left)

(***************************************************************************)
(* removePath.  An attempt of the loop body ends "ok" or throws an error   *)
(* [code, message]; script[i + 1] is what attempt i does when the path     *)
(* exists.  A path that is absent makes stat throw ENOENT.  keep names the *)
(* top-level entries a failed recursive rm leaves behind.                  *)
(***************************************************************************)
OkOutcome == [code |-> "ok", message |-> ""]

Err(c, m) == [code |-> c, message |-> m]

NoError == [code |-> "none", message |-> ""]

\* error.message?.includes('locked'), error.message?.includes('in use')
MessageIncludes(m, word) ==
    \/ word = "locked" /\ m \in {"file is locked", "locked and in use"}
    \/ word = "in use" /\ m \in {"resource in use", "locked and in use"}

\* faulty variant of isLocked: only the error codes are looked at
isLockedByCode(error) ==
    error.code \in {"EBUSY", "EPERM", "EACCES", "ENOTEMPTY"}

isLocked(error) ==
    \/ error.code = "EBUSY"
    \/ error.code = "EPERM"
    \/ error.code = "EACCES"
    \/ error.code = "ENOTEMPTY"
    \/ MessageIncludes(error.message, "locked")
    \/ MessageIncludes(error.message, "in use")

RECURSIVE removeLoop(_, _, _, _, _, _)

\* the for loop of removePath from index i on; waits are the setTimeout delays
removeLoop(target, i, retries, delay, script, keep) ==
    IF i >= retries
    THEN [node |-> target, threw |-> FALSE, error |-> NoError, waits |-> <<>>, attempts |-> 0]
    ELSE IF ~Exists(target)
    THEN [node |-> target, threw |-> FALSE, error |-> NoError, waits |-> <<>>, attempts |-> 1]
    ELSE LET o == script[i + 1]
             left == IF target.kind = "dir" THEN Restrict(target, keep) ELSE target
         IN  IF o.code = "ok"
             THEN [node |-> Absent, threw |-> FALSE, error |-> NoError, waits |-> <<>>, attempts |-> 1]
             ELSE IF isLocked(o) /\ i < retries - 1
             THEN LET r == removeLoop(left, i + 1, retries, delay, script, keep)
                  IN  [r EXCEPT !.waits = <<delay * (i + 1)>> \o @,
                                !.attempts = @ + 1]
             ELSE [node |-> left, threw |-> TRUE, error |-> o, waits |-> <<>>, attempts |-> 1]

\* faulty variant of removePath: the ENOENT of a missing path is thrown
removePathStrict(target, retries, delay, script, keep) ==
    IF ~Exists(target) /\ retries > 0
    THEN [node |-> target, threw |-> TRUE, error |-> Err("ENOENT", "no such file"),
          waits |-> <<>>, attempts |-> 1]
    ELSE removeLoop(target, 0, retries, delay, script, keep)

removePath(target, retries, delay, script, keep) ==
    removeLoop(target, 0, retries, delay, script, keep)

(***************************************************************************)
(* removeDirectoryContents: removePath on every entry in readdir order,    *)
(* stopping at the first one that throws.  scriptOf gives each entry's     *)
(* attempts.                                                               *)
(***************************************************************************)
RECURSIVE removeEntries(_, _, _)

removeEntries(dir, names, scriptOf) ==
    IF names = <<>>
    THEN [node |-> dir, threw |-> FALSE, error |-> NoError]
    ELSE LET n == Head(names)
             e == dir.entries[n]
             r == removePath(e, DefaultRetries, DefaultDelay, scriptOf[n], Names(e))
             d2 == IF Exists(r.node)
                   THEN Put(dir, n, r.node)
                   ELSE Restrict(dir, Names(dir) \ {n})
         IN  IF r.threw
             THEN [node |-> d2, threw |-> TRUE, error |-> r.error]
             ELSE removeEntries(d2, Tail(names), scriptOf)

\* faulty variant of removeDirectoryContents: the directory itself is removed
removeDirectoryContentsWhole(dirPath, scriptOf) ==
    IF ~Exists(dirPath) \/ dirPath.kind # "dir"
    THEN [node |-> dirPath, threw |-> FALSE, error |-> NoError]
    ELSE [node |-> Absent, threw |-> FALSE, error |-> NoError]

removeDirectoryContents(dirPath, scriptOf) ==
    IF ~Exists(dirPath) \/ dirPath.kind # "dir"
    THEN [node |-> dirPath, threw |-> FALSE, error |-> NoError]
    ELSE removeEntries(dirPath, Ordered(Names(dirPath)), scriptOf)

(***************************************************************************)
(* Update selection of checkForUpdate.                                     *)
(***************************************************************************)
Urls == {"u1", "u2"}

Entries == [version : 1..MaxVersion, enable : BOOLEAN, download : Urls]

NoEntry == [version |-> 0, enable |-> FALSE, download |-> "none"]

RECURSIVE SeqsUpTo(_, _)

\* the sequences over S of length at most n
SeqsUpTo(S, n) ==
    IF n = 0
    THEN {<<>>}
    ELSE LET shorter == SeqsUpTo(S, n - 1)
         IN  shorter \cup {Append(q, x) : q \in {r \in shorter : Len(r) = n - 1}, x \in S}

Manifests == SeqsUpTo(Entries, MaxManifestLen)

\* faulty variant of compare: the operands swapped, an ascending sort
compareAscending(a, b) == a.version - b.version

\* the comparator of the sort: (a, b) => b.version - a.version
compare(a, b) == b.version - a.version

RECURSIVE insertSortedUnstable(_, _)

\* faulty variant of insertSorted: an entry is put before the entries of the
\* same version, as a sort that is not stable may do
insertSortedUnstable(q, x) ==
    IF q = <<>>
    THEN <<x>>
    ELSE IF compare(Head(q), x) < 0
         THEN <<Head(q)>> \o insertSortedUnstable(Tail(q), x)
         ELSE <<x>> \o q

RECURSIVE insertSorted(_, _)

\* x put into the sorted sequence q after every element that does not sort after it
insertSorted(q, x) ==
    IF q = <<>>
    THEN <<x>>
    ELSE IF compare(Head(q), x) <= 0
         THEN <<Head(q)>> \o insertSorted(Tail(q), x)
         ELSE <<x>> \o q

RECURSIVE sortUpdates(_)

\* Array.prototype.sort with compare: a stable sort
sortUpdates(q) ==
    IF q = <<>>
    THEN <<>>
    ELSE insertSorted(sortUpdates(SubSeq(q, 1, Len(q) - 1)), q[Len(q)])

\* faulty variant of isAvailable: the same version counts as an update
isAvailableOrSame(update, currentVersion) ==
    update.enable /\ update.version >= currentVersion

isAvailable(update, currentVersion) ==
    update.enable /\ update.version > currentVersion

availableUpdates(updates, currentVersion) ==
    sortUpdates(SelectSeq(updates, LAMBDA u : isAvailable(u, currentVersion)))

(***************************************************************************)
(* Version store: the "ota" key of package.json in the bundle directory.   *)
(***************************************************************************)
HasFile(node, n) ==
    node.kind = "dir" /\ n \in Names(node) /\ node.entries[n].kind = "file"

\* faulty variant of _getSavedVersion: the content is used without the try
\* block and the typeof test
_getSavedVersionUnguarded(b) ==
    IF HasFile(b, "package.json")
    THEN b.entries["package.json"].data.ota
    ELSE 0

_getSavedVersion(b) ==
    IF HasFile(b, "package.json")
       /\ b.entries["package.json"].data.json
       /\ b.entries["package.json"].data.ota >= 0
    THEN b.entries["package.json"].data.ota
    ELSE 0

getCurrentVersion(b) == _getSavedVersion(b)

\* faulty variant of _saveVersion: the "ota" key is not set before the write
_saveVersionKeepsOta(b, version, writeOk) ==
    IF b.kind = "dir" /\ writeOk /\ ~HasFile(b, "package.json")
    THEN Put(b, "package.json", File(PkgJson(-1, "fresh")))
    ELSE b

\* the bundle directory after _saveVersion(version); writeOk: writeFileSync succeeds
_saveVersion(b, version, writeOk) ==
    LET packageJson ==
            IF HasFile(b, "package.json") /\ b.entries["package.json"].data.json
            THEN b.entries["package.json"].data
            ELSE PkgJson(-1, "fresh")
    IN  IF b.kind = "dir" /\ writeOk
        THEN Put(b, "package.json", File([packageJson EXCEPT !.ota = version]))
        ELSE b

(***************************************************************************)
(* Trees of the model: the installed bundle and the archives a download    *)
(* URL may serve.                                                          *)
(***************************************************************************)
OldBundle(pkg) ==
    Dir([n \in {"package.json", "a.txt", "sub"} |->
            IF n = "package.json" THEN File(pkg)
            ELSE IF n = "a.txt" THEN File(Text("old-a"))
            ELSE Dir([m \in {"b.txt"} |-> File(Text("old-b"))])])

InitialBundles ==
    {OldBundle(PkgJson(v, "old")) : v \in (1..MaxVersion) \cup {-1}}
        \cup {OldBundle(Text("corrupt")), Absent}

NewContent(pkg) ==
    Dir([n \in {"package.json", "c.txt", "sub"} |->
            IF n = "package.json" THEN File(pkg)
            ELSE IF n = "c.txt" THEN File(Text("new-c"))
            ELSE Dir([m \in {"b.txt"} |-> File(Text("new-b"))])])

FlatArchive == NewContent(PkgJson(-1, "new"))

StaleOtaArchive == NewContent(PkgJson(1, "new"))

WrappedArchive == Dir([n \in {"app"} |-> FlatArchive])

EmptyArchive == Dir(EmptyEntries)

Archives == {FlatArchive, StaleOtaArchive, WrappedArchive, EmptyArchive}

\* an archive of one file and no directory
SingleFileArchive == Dir([n \in {"a.txt"} |-> File(Text("only"))])

\* the archives update(url) is given
UpdateArchives == Archives \cup {SingleFileArchive}

\* what a failed extraction may leave in the destination directory
PartialExtractions(tree) == {Restrict(tree, keep) : keep \in SUBSET Names(tree)}

\* faulty variant of _findBundleSource: a single entry is taken whatever it is
_findBundleSourceAny(unpackedPath) ==
    LET entries == Ordered(Names(unpackedPath))
    IN  IF Len(entries) = 1
        THEN unpackedPath.entries[entries[1]]
        ELSE unpackedPath

_findBundleSource(unpackedPath) ==
    LET entries == Ordered(Names(unpackedPath))
    IN  IF Len(entries) = 1 /\ unpackedPath.entries[entries[1]].kind = "dir"
        THEN unpackedPath.entries[entries[1]]
        ELSE unpackedPath

(***************************************************************************)
(* Fault choices of the steps.                                             *)
(***************************************************************************)
RECURSIVE FileCount(_)
RECURSIVE FileCountOf(_, _)

FileCountOf(node, names) ==
    IF names = <<>> THEN 0
    ELSE FileCount(node.entries[Head(names)]) + FileCountOf(node, Tail(names))

\* the number of files under node
FileCount(node) ==
    IF node.kind = "file" THEN 1
    ELSE IF node.kind = "dir" THEN FileCountOf(node, Ordered(Names(node)))
    ELSE 0

CopyFaults(source) == 0..FileCount(source)

OkScript == <<OkOutcome, OkOutcome, OkOutcome>>

\* locked once, then removed
RetryScript == <<Err("EBUSY", "busy"), OkOutcome, OkOutcome>>

\* locked at every attempt
LockedScript ==
    <<Err("EBUSY", "busy"), Err("EPERM", "file is locked"), Err("EACCES", "denied")>>

\* an error that is not a lock
HardScript == <<Err("EIO", "disk failure"), OkOutcome, OkOutcome>>

Scripts == {OkScript, RetryScript, LockedScript, HardScript}

\* the choices of one removePath call on node: a script, and for a script that
\* throws the top-level entries left behind
RemoveChoices(node) ==
    {[script |-> sc, keep |-> Names(node)] : sc \in {OkScript, RetryScript}}
        \cup {[script |-> sc, keep |-> k] :
                 sc \in {LockedScript, HardScript}, k \in SUBSET Names(node)}

\* the choices of one removeDirectoryContents call on node: every entry is
\* removed, or one entry throws
ContentsChoices(node) ==
    {[n \in Names(node) |-> sc] : sc \in {OkScript, RetryScript}}
        \cup {[n \in Names(node) |-> IF n = f THEN sc ELSE OkScript] :
                 f \in Names(node), sc \in {LockedScript, HardScript}}

(***************************************************************************)
(* State.                                                                  *)
(*   bundle     the tree at bundlePath                                     *)
(*   backups    the snapshots at bundlePath.backup.<time>, oldest first    *)
(*   zip        the downloaded archive file of the call                    *)
(*   unpacked   the extraction directory of the call                       *)
(*   cfg        the constructor's options and the host platform            *)
(*   pc, mode   position of the call; mode is the public method called     *)
(*   opts       the options of the checkForUpdate call, each fixed when    *)
(*              the code first reads it                                    *)
(*   call       the locals of the call                                     *)
(*   hist       what the call has done so far (history, for the claims)    *)
(*   statuses   the tokens passed to onStatus by the call                  *)
(*   callbacks  the callbacks invoked by the call, in order                *)
(*   outcome    how replace ended in the call                              *)
(*   rm         a removePath call studied on its own: its arguments, what   *)
(*              each attempt does, and the results of the call and of a     *)
(*              second call on the same path                                *)
(*   helper     a copyDirectory or removeDirectoryContents call studied on  *)
(*              its own: its arguments, its faults and its result           *)
(*   pub        the publish tool and its channel: update.json and the       *)
(*              archives in the bucket, the locals of the run               *)
(***************************************************************************)
VARIABLES bundle, backups, zip, unpacked, cfg, pc, mode, opts, call, hist,
          statuses, callbacks, outcome, rm, helper, pub, sel, race

vars == <<bundle, backups, zip, unpacked, cfg, pc, mode, opts, call, hist,
          statuses, callbacks, outcome, rm, helper, pub, sel, race>>

NoOpts == [currentVersion |-> -1, hasNeedRestart |-> FALSE, needRestartThrows |-> FALSE]

NoCall ==
    [currentVersion |-> 0, latestUpdate |-> NoEntry, backupPath |-> 0,
     shouldPreserveDirectory |-> FALSE, newBundlePath |-> Absent, error |-> "none"]

NoHist ==
    [before |-> Absent, response |-> "none", body |-> "none", best |-> {},
     archive |-> Absent, ran |-> {}, failed |-> {}]

NoOutcome == [result |-> "none", at |-> "none", note |-> "none"]

NoResult == [node |-> Absent, threw |-> FALSE, error |-> NoError, waits |-> <<>>, attempts |-> 0]

NoHelper ==
    [op |-> "none", source |-> Absent, destination |-> Absent, left |-> 0,
     scriptOf |-> EmptyEntries, done |-> FALSE, node |-> Absent, ok |-> FALSE]

\* the channel of the publish tool before its first run: no update.json and no
\* archive in the bucket, no run of main in progress
NoPub ==
    [exists |-> FALSE, manifest |-> <<>>, archives |-> {}, pc |-> "none",
     updates |-> <<>>, read |-> FALSE, nextVersion |-> 0, runs |-> 0,
     issued |-> <<>>, before |-> <<>>, completed |-> FALSE]

\* no selection under study
NoSel ==
    [updates |-> <<>>, currentVersion |-> 0, calls |-> 0,
     first |-> NoEntry, second |-> NoEntry]

\* no overlapping calls under study
NoRace ==
    [pc |-> <<"none", "none">>, content |-> <<Absent, Absent>>, version |-> <<0, 0>>,
     backupPath |-> <<0, 0>>, before |-> Absent, trace |-> <<>>]

NoRemove ==
    [target |-> Absent, retries |-> 0, delay |-> 0, script |-> <<>>, keep |-> {},
     calls |-> 0, first |-> NoResult, second |-> NoResult]

Init ==
    /\ bundle \in InitialBundles
    /\ backups = <<>>
    /\ zip = Absent
    /\ unpacked = Absent
    /\ cfg \in [backup : BOOLEAN, platform : {"win32", "linux"},
                basename : {"package.nw", "app.nw"}]
    /\ pc = "idle"
    /\ mode = "none"
    /\ opts = NoOpts
    /\ call = NoCall
    /\ hist = NoHist
    /\ statuses = <<>>
    /\ callbacks = <<>>
    /\ outcome = NoOutcome
    /\ rm = NoRemove
    /\ helper = NoHelper
    /\ pub = NoPub
    /\ sel = NoSel
    /\ race = NoRace

Callback(name, update, message) == [name |-> name, update |-> update, message |-> message]

\* the callback cb invoked when onStatus had received n tokens
Seen(cb, n) ==
    [name |-> cb.name, update |-> cb.update, message |-> cb.message, seen |-> n]

Ran(h, step) == [h EXCEPT !.ran = @ \cup {step}]

Failed(h, step) == [h EXCEPT !.ran = @ \cup {step}, !.failed = @ \cup {step}]

\* history only: the entries of a manifest that may be installed over version c,
\* and those of them with the highest version
Eligible(updates, c) ==
    {e \in {updates[i] : i \in 1..Len(updates)} : e.enable /\ e.version > c}

Best(updates, c) ==
    {e \in Eligible(updates, c) : \A f \in Eligible(updates, c) : f.version <= e.version}

(***************************************************************************)
(* The catch blocks and the no-update returns of checkForUpdate.           *)
(***************************************************************************)
\* the inner catch: remove the archive ignoring errors, report the failure
InnerCatch(st, cbs, z, script) ==
    /\ zip' = IF Exists(z)
              THEN removePath(z, DefaultRetries, DefaultDelay, script, {}).node
              ELSE z
    /\ statuses' = Append(st, "error")
    /\ callbacks' = Append(cbs, Seen(Callback("updateFail", NoEntry, "Failed to install update"),
                                     Len(st) + 1))
    /\ pc' = "done"

\* faulty variant of OuterCatch: the error is reported as a status and thrown
\* on, so that the promise of checkForUpdate rejects (pc = "rejected")
OuterCatchRethrows(st, cbs) ==
    /\ statuses' = Append(st, "error")
    /\ callbacks' = cbs
    /\ pc' = "rejected"

\* the outer catch: report the failure.  Nothing in it throws, so the async
\* function returns and its promise resolves (pc = "done")
OuterCatch(st, cbs) ==
    /\ statuses' = Append(st, "error")
    /\ callbacks' = Append(cbs, Seen(Callback("updateFail", NoEntry,
                                              "Failed to check for updates"), Len(st) + 1))
    /\ pc' = "done"

\* the catch of the manifest request for an error that is not a 404
FetchCatch(st, cbs) == OuterCatch(Append(st, "error"), cbs)

ReportNoUpdate(st, cbs) ==
    /\ statuses' = Append(st, "no-update")
    /\ callbacks' = Append(cbs, Seen(Callback("noUpdate", NoEntry, "none"), Len(st) + 1))
    /\ pc' = "done"

(***************************************************************************)
(* checkForUpdate, up to the manifest request.                             *)
(***************************************************************************)
\* faulty variant of CheckForUpdate: options.currentVersion || saved version
CheckForUpdateFalsy ==
    /\ pc = "idle"
    /\ \E currentVersion \in (0..MaxVersion) \cup {-1} :
          /\ opts' = [NoOpts EXCEPT !.currentVersion = currentVersion]
          /\ call' = [NoCall EXCEPT !.currentVersion =
                         IF currentVersion > 0
                         THEN currentVersion
                         ELSE _getSavedVersion(bundle)]
    /\ mode' = "check"
    /\ hist' = [NoHist EXCEPT !.before = bundle]
    /\ statuses' = <<"checking">>
    /\ pc' = "fetch"
    /\ UNCHANGED <<sel, race, rm, helper, pub, bundle, backups, zip, unpacked, cfg, callbacks, outcome>>

CheckForUpdate ==
    /\ pc = "idle"
    /\ \E currentVersion \in (0..MaxVersion) \cup {-1} :
          /\ opts' = [NoOpts EXCEPT !.currentVersion = currentVersion]
          /\ call' = [NoCall EXCEPT !.currentVersion =
                         IF currentVersion # -1
                         THEN currentVersion
                         ELSE _getSavedVersion(bundle)]
    /\ mode' = "check"
    /\ hist' = [NoHist EXCEPT !.before = bundle]
    /\ statuses' = <<"checking">>
    /\ pc' = "fetch"
    /\ UNCHANGED <<sel, race, rm, helper, pub, bundle, backups, zip, unpacked, cfg, callbacks, outcome>>

(***************************************************************************)
(* The manifest response, the selection and the start of the download.     *)
(***************************************************************************)
Bodies ==
    {[type |-> "null", items |-> <<>>], [type |-> "object", items |-> <<>>]}
        \cup {[type |-> "array", items |-> m] : m \in Manifests}

\* faulty variant of FetchNotFound: the 404 status is not told apart from other errors
FetchNotFoundAsError ==
    /\ pc = "fetch"
    /\ hist' = [hist EXCEPT !.response = "404"]
    /\ FetchCatch(statuses, callbacks)
    /\ UNCHANGED <<sel, race, rm, helper, pub, bundle, backups, zip, unpacked, cfg, mode, opts, call, outcome>>

FetchNotFound ==
    /\ pc = "fetch"
    /\ hist' = [hist EXCEPT !.response = "404"]
    /\ ReportNoUpdate(statuses, callbacks)
    /\ UNCHANGED <<sel, race, rm, helper, pub, bundle, backups, zip, unpacked, cfg, mode, opts, call, outcome>>

\* a timeout, a connection failure or a status other than 2xx and 404
FetchFails ==
    /\ pc = "fetch"
    /\ hist' = [hist EXCEPT !.response = "error"]
    /\ FetchCatch(statuses, callbacks)
    /\ UNCHANGED <<sel, race, rm, helper, pub, bundle, backups, zip, unpacked, cfg, mode, opts, call, outcome>>

FetchOk ==
    /\ pc = "fetch"
    /\ \E body \in Bodies :
        LET updates == body.items
            available == availableUpdates(updates, call.currentVersion)
        IN  /\ hist' = [hist EXCEPT !.response = "ok", !.body = body.type,
                                    !.best = Best(updates, call.currentVersion)]
            /\ IF body.type = "null"
               THEN \* updates.length in the log line of the try block throws
                    /\ FetchCatch(statuses, callbacks)
                    /\ UNCHANGED call
               ELSE IF body.type # "array" \/ Len(updates) = 0
               THEN /\ ReportNoUpdate(statuses, callbacks)
                    /\ UNCHANGED call
               ELSE IF Len(available) = 0
               THEN /\ ReportNoUpdate(statuses, callbacks)
                    /\ UNCHANGED call
               ELSE /\ call' = [call EXCEPT !.latestUpdate = available[1]]
                    /\ statuses' = statuses \o <<"update-found", "downloading">>
                    /\ callbacks' = Append(callbacks,
                                           Seen(Callback("updateFound", available[1], "none"),
                                                Len(statuses) + 1))
                    /\ pc' = "download"
    /\ UNCHANGED <<sel, race, rm, helper, pub, bundle, backups, zip, unpacked, cfg, mode, opts, outcome>>

(***************************************************************************)
(* Download and unpack steps of checkForUpdate.                            *)
(***************************************************************************)
\* _downloadFile(url, destinationPath, headers): one request for the whole
\* body, then one writeFileSync; no option of the call is read and no callback
\* is invoked while it runs
Download ==
    /\ pc = "download"
    /\ \/ \E a \in Archives :
            /\ zip' = File(Text("zip"))
            /\ hist' = [Ran(hist, "download") EXCEPT !.archive = a]
            /\ statuses' = statuses \o <<"downloaded", "unpacking">>
            /\ pc' = "unpack"
            /\ UNCHANGED callbacks
       \/ \E z \in {Absent, File(Text("incomplete"))}, script \in Scripts :
            \* _downloadFile threw; its unlink of the incomplete file may fail
            /\ hist' = Failed(hist, "download")
            /\ InnerCatch(statuses, callbacks, z, script)
    /\ UNCHANGED <<sel, race, rm, helper, pub, bundle, backups, unpacked, cfg, mode, opts, call, outcome>>

Unpack ==
    /\ pc = "unpack"
    /\ \/ /\ unpacked' = hist.archive
          /\ hist' = Ran(hist, "unpack")
          /\ call' = [call EXCEPT !.newBundlePath = _findBundleSource(hist.archive)]
          /\ statuses' = statuses \o <<"unpacked", "replacing">>
          /\ pc' = "backup"
          /\ UNCHANGED <<zip, callbacks>>
       \/ \E partial \in PartialExtractions(hist.archive), script \in Scripts :
            /\ unpacked' = partial
            /\ hist' = Failed(hist, "unpack")
            /\ InnerCatch(statuses, callbacks, zip, script)
            /\ UNCHANGED call
    /\ UNCHANGED <<sel, race, rm, helper, pub, bundle, backups, cfg, mode, opts, outcome>>

(***************************************************************************)
(* replace(newBundlePath), called by checkForUpdate or directly.           *)
(***************************************************************************)
ReplaceSources == Archives \cup {Absent}

Replace ==
    /\ pc = "idle"
    /\ \E newBundlePath \in ReplaceSources :
          call' = [NoCall EXCEPT !.newBundlePath = newBundlePath]
    /\ mode' = "replace"
    /\ hist' = [NoHist EXCEPT !.before = bundle]
    /\ pc' = "backup"
    /\ UNCHANGED <<sel, race, rm, helper, pub, bundle, backups, zip, unpacked, cfg, opts, statuses, callbacks, outcome>>

\* replace returns: a direct caller gets control back, checkForUpdate goes on
Returns ==
    /\ outcome' = [result |-> "returned", at |-> "none", note |-> "none"]
    /\ IF mode = "replace"
       THEN /\ pc' = "done"
            /\ UNCHANGED <<zip, statuses, callbacks>>
       ELSE IF mode = "update"
       THEN /\ pc' = "updateCleanup"
            /\ UNCHANGED <<zip, statuses, callbacks>>
       ELSE /\ pc' = "save"
            /\ statuses' = statuses \o <<"replaced", "saving">>
            /\ UNCHANGED <<zip, callbacks>>

\* replace throws: a direct caller gets the error, checkForUpdate catches it
Raises(at, note) ==
    /\ outcome' = [result |-> "raised", at |-> at, note |-> note]
    /\ IF mode = "replace"
       THEN /\ pc' = "done"
            /\ UNCHANGED <<zip, statuses, callbacks>>
       ELSE IF mode = "update"
       THEN /\ pc' = "updateCatch"
            /\ UNCHANGED <<zip, statuses, callbacks>>
       ELSE \E script \in Scripts : InnerCatch(statuses, callbacks, zip, script)

\* faulty variant of CatchReplace: the backup is never restored
CatchReplaceNoRollback(step) ==
    /\ Raises(step, "none")
    /\ UNCHANGED call

\* faulty variant of CatchReplace: without a backup the error is wrapped as if
\* the backup had been restored
CatchReplaceWraps(step) ==
    IF call.backupPath # 0
    THEN /\ pc' = "rollback"
         /\ call' = [call EXCEPT !.error = step]
         /\ UNCHANGED <<zip, statuses, callbacks, outcome>>
    ELSE /\ Raises(step, "Backup restored")
         /\ UNCHANGED call

\* the catch block of replace decides between rollback and rethrow:
\* backupPath && fs.existsSync(backupPath).  No step of the program removes a
\* snapshot, so one that was taken is still there.
CatchReplace(step) ==
    IF call.backupPath # 0 /\ Exists(backups[call.backupPath])
    THEN /\ pc' = "rollback"
         /\ call' = [call EXCEPT !.error = step]
         /\ UNCHANGED <<zip, statuses, callbacks, outcome>>
    ELSE /\ Raises(step, "none")
         /\ UNCHANGED call

\* faulty variant of shouldPreserveDirectory: the directory is never preserved
shouldPreserveNever(b) == FALSE

shouldPreserveDirectory(b) ==
    cfg.platform = "win32" /\ cfg.basename = "package.nw" /\ Exists(b)

\* faulty variant of Backup: a failed backup is ignored and replace goes on
BackupContinues ==
    /\ pc = "backup"
    /\ IF cfg.backup /\ Exists(bundle)
       THEN \E left \in CopyFaults(bundle) :
              LET r == CopyDirectory(bundle, Absent, left)
              IN  /\ backups' = Append(backups, r.node)
                  /\ call' = [call EXCEPT
                         !.backupPath = IF r.ok THEN Len(backups) + 1 ELSE 0,
                         !.shouldPreserveDirectory = shouldPreserveDirectory(bundle)]
                  /\ hist' = IF r.ok THEN Ran(hist, "backup") ELSE Failed(hist, "backup")
       ELSE /\ call' = [call EXCEPT
                   !.shouldPreserveDirectory = shouldPreserveDirectory(bundle)]
            /\ UNCHANGED <<backups, hist>>
    /\ pc' = "clear"
    /\ UNCHANGED <<sel, race, rm, helper, pub, bundle, unpacked, cfg, mode, opts, zip, statuses, callbacks, outcome>>

\* createBackup and the decision to preserve the directory
Backup ==
    /\ pc = "backup"
    /\ IF cfg.backup /\ Exists(bundle)
       THEN \E left \in CopyFaults(bundle) :
              LET r == CopyDirectory(bundle, Absent, left)
              IN  /\ backups' = Append(backups, r.node)
                  /\ IF r.ok
                     THEN /\ call' = [call EXCEPT
                                 !.backupPath = Len(backups) + 1,
                                 !.shouldPreserveDirectory = shouldPreserveDirectory(bundle)]
                          /\ hist' = Ran(hist, "backup")
                          /\ pc' = "clear"
                          /\ UNCHANGED <<zip, statuses, callbacks, outcome>>
                     ELSE /\ hist' = Failed(hist, "backup")
                          /\ Raises("backup", "none")
                          /\ UNCHANGED call
       ELSE /\ call' = [call EXCEPT
                   !.shouldPreserveDirectory = shouldPreserveDirectory(bundle)]
            /\ pc' = "clear"
            /\ UNCHANGED <<backups, hist, zip, statuses, callbacks, outcome>>
    /\ UNCHANGED <<sel, race, rm, helper, pub, bundle, unpacked, cfg, mode, opts>>

\* the fault choices of the removal of the bundle
ClearChoices(b, preserve) ==
    IF preserve
    THEN {[script |-> OkScript, keep |-> {}, scriptOf |-> f] : f \in ContentsChoices(b)}
    ELSE {[script |-> c.script, keep |-> c.keep, scriptOf |-> EmptyEntries] :
             c \in RemoveChoices(b)}

\* faulty variant of ClearResult: nothing is removed
ClearResultSkip(b, preserve, ch) ==
    [node |-> b, threw |-> FALSE, error |-> NoError]

\* the removal of the bundle: its contents only, or the whole directory
ClearResult(b, preserve, ch) ==
    IF preserve
    THEN removeDirectoryContents(b, ch.scriptOf)
    ELSE IF Exists(b)
    THEN removePath(b, DefaultRetries, DefaultDelay, ch.script, ch.keep)
    ELSE [node |-> b, threw |-> FALSE, error |-> NoError]

\* history only: the removal r of the bundle b took the directory itself away
RemovedDir(h, b, r) ==
    IF Exists(b) /\ ~Exists(r.node) THEN Ran(h, "removeBundleDir") ELSE h

Clear ==
    /\ pc = "clear"
    /\ \E ch \in ClearChoices(bundle, call.shouldPreserveDirectory) :
         LET r == ClearResult(bundle, call.shouldPreserveDirectory, ch)
         IN  IF r.threw
             THEN /\ bundle' = r.node
                  /\ hist' = Failed(RemovedDir(hist, bundle, r), "clear")
                  /\ CatchReplace("clear")
             ELSE \* mkdirSync of the bundle directory when it is gone
                  /\ bundle' = IF Exists(r.node) THEN r.node ELSE Dir(EmptyEntries)
                  /\ hist' = Ran(RemovedDir(hist, bundle, r), "clear")
                  /\ pc' = "install"
                  /\ UNCHANGED <<zip, statuses, callbacks, outcome, call>>
    /\ UNCHANGED <<sel, race, rm, helper, pub, backups, unpacked, cfg, mode, opts>>

Install ==
    /\ pc = "install"
    /\ \E left \in CopyFaults(call.newBundlePath) :
         LET r == CopyDirectory(call.newBundlePath, bundle, left)
         IN  /\ bundle' = r.node
             /\ IF r.ok
                THEN /\ hist' = Ran(hist, "install")
                     /\ Returns
                     /\ UNCHANGED call
                ELSE /\ hist' = Failed(hist, "install")
                     /\ CatchReplace("install")
    /\ UNCHANGED <<sel, race, rm, helper, pub, backups, unpacked, cfg, mode, opts>>

\* faulty variant of Rollback: the snapshot is removed once it has been used
RollbackDropsBackup ==
    /\ pc = "rollback"
    /\ \E ch \in ClearChoices(bundle, call.shouldPreserveDirectory),
          left \in CopyFaults(backups[call.backupPath]) :
         LET r1 == ClearResult(bundle, call.shouldPreserveDirectory, ch)
             r2 == CopyDirectory(backups[call.backupPath], r1.node, left)
         IN  IF r1.threw
             THEN /\ bundle' = r1.node
                  /\ hist' = Failed(RemovedDir(hist, bundle, r1), "rollback")
                  /\ Raises("rollback", "none")
             ELSE /\ bundle' = r2.node
                  /\ IF r2.ok
                     THEN /\ hist' = Ran(RemovedDir(hist, bundle, r1), "rollback")
                          /\ Raises(call.error, "Backup restored")
                     ELSE /\ hist' = Failed(RemovedDir(hist, bundle, r1), "rollback")
                          /\ Raises("rollback", "none")
    /\ backups' = [backups EXCEPT ![call.backupPath] = Absent]
    /\ UNCHANGED <<sel, race, rm, helper, pub, unpacked, cfg, mode, opts, call>>

\* restore from the backup, then throw
Rollback ==
    /\ pc = "rollback"
    /\ \E ch \in ClearChoices(bundle, call.shouldPreserveDirectory),
          left \in CopyFaults(backups[call.backupPath]) :
         LET r1 == ClearResult(bundle, call.shouldPreserveDirectory, ch)
             r2 == CopyDirectory(backups[call.backupPath], r1.node, left)
         IN  IF r1.threw
             THEN /\ bundle' = r1.node
                  /\ hist' = Failed(RemovedDir(hist, bundle, r1), "rollback")
                  /\ Raises("rollback", "none")
             ELSE /\ bundle' = r2.node
                  /\ IF r2.ok
                     THEN /\ hist' = Ran(RemovedDir(hist, bundle, r1), "rollback")
                          /\ Raises(call.error, "Backup restored")
                     ELSE /\ hist' = Failed(RemovedDir(hist, bundle, r1), "rollback")
                          /\ Raises("rollback", "none")
    /\ UNCHANGED <<sel, race, rm, helper, pub, backups, unpacked, cfg, mode, opts, call>>

(***************************************************************************)
(* The rest of checkForUpdate after replace returned.                      *)
(***************************************************************************)
\* faulty variant of SaveVersion: the error of the write is not caught
SaveVersionThrows ==
    /\ pc = "save"
    /\ \E writeOk \in BOOLEAN :
         /\ bundle' = _saveVersion(bundle, call.latestUpdate.version, writeOk)
         /\ IF writeOk /\ bundle.kind = "dir"
            THEN /\ hist' = Ran(hist, "save")
                 /\ statuses' = Append(statuses, "cleaning")
                 /\ pc' = "cleanup"
                 /\ UNCHANGED <<zip, callbacks>>
            ELSE /\ hist' = Failed(hist, "save")
                 /\ \E script \in Scripts : InnerCatch(statuses, callbacks, zip, script)
    /\ UNCHANGED <<sel, race, rm, helper, pub, backups, unpacked, cfg, mode, opts, call, outcome>>

SaveVersion ==
    /\ pc = "save"
    /\ \E writeOk \in BOOLEAN :
         /\ bundle' = _saveVersion(bundle, call.latestUpdate.version, writeOk)
         /\ hist' = IF writeOk /\ bundle.kind = "dir"
                    THEN Ran(hist, "save")
                    ELSE Failed(hist, "save")
    /\ statuses' = Append(statuses, "cleaning")
    /\ pc' = "cleanup"
    /\ UNCHANGED <<sel, race, rm, helper, pub, backups, zip, unpacked, cfg, mode, opts, call, callbacks, outcome>>

\* faulty variant of ReportSuccess: restart-needed is emitted only with the
\* callback
ReportSuccessQuiet(z, h) ==
    LET ok == Append(callbacks, Seen(Callback("updateSuccess", NoEntry, "none"),
                                     Len(statuses) + 1))
        notified == Append(ok, Seen(Callback("onNeedRestart", NoEntry, "none"),
                                    Len(statuses) + 2))
    IN  \E hasNeedRestart \in BOOLEAN :
          /\ opts' = [opts EXCEPT !.hasNeedRestart = hasNeedRestart]
          /\ hist' = IF hasNeedRestart THEN Ran(h, "onNeedRestart") ELSE h
          /\ zip' = z
          /\ statuses' = IF hasNeedRestart
                         THEN statuses \o <<"success", "restart-needed">>
                         ELSE Append(statuses, "success")
          /\ callbacks' = IF hasNeedRestart THEN notified ELSE ok
          /\ pc' = "done"

\* the success report and the restart notification
ReportSuccess(z, h) ==
    LET st == statuses \o <<"success", "restart-needed">>
        ok == Append(callbacks, Seen(Callback("updateSuccess", NoEntry, "none"),
                                     Len(statuses) + 1))
        notified == Append(ok, Seen(Callback("onNeedRestart", NoEntry, "none"),
                                    Len(statuses) + 2))
    IN  \E hasNeedRestart \in BOOLEAN, needRestartThrows \in BOOLEAN :
          /\ needRestartThrows => hasNeedRestart
          /\ opts' = [opts EXCEPT !.hasNeedRestart = hasNeedRestart,
                                  !.needRestartThrows = needRestartThrows]
          /\ IF ~hasNeedRestart
             THEN /\ hist' = h
                  /\ zip' = z
                  /\ statuses' = st
                  /\ callbacks' = ok
                  /\ pc' = "done"
             ELSE IF ~needRestartThrows
             THEN /\ hist' = Ran(h, "onNeedRestart")
                  /\ zip' = z
                  /\ statuses' = st
                  /\ callbacks' = notified
                  /\ pc' = "done"
             ELSE /\ hist' = Failed(h, "onNeedRestart")
                  /\ \E script \in Scripts : InnerCatch(st, notified, z, script)

Cleanup ==
    /\ pc = "cleanup"
    /\ \E s1 \in Scripts :
         LET r1 == IF Exists(zip)
                   THEN removePath(zip, DefaultRetries, DefaultDelay, s1, {})
                   ELSE [node |-> zip, threw |-> FALSE]
         IN  IF r1.threw
             THEN /\ hist' = Failed(hist, "cleanupZip")
                  /\ \E script \in Scripts : InnerCatch(statuses, callbacks, r1.node, script)
                  /\ UNCHANGED <<unpacked, opts>>
             ELSE \E ch \in RemoveChoices(unpacked) :
                    LET r2 == IF Exists(unpacked)
                              THEN removePath(unpacked, DefaultRetries, DefaultDelay,
                                              ch.script, ch.keep)
                              ELSE [node |-> unpacked, threw |-> FALSE]
                    IN  /\ unpacked' = r2.node
                        /\ IF r2.threw
                           THEN /\ hist' = Failed(Ran(hist, "cleanupZip"), "cleanupUnpacked")
                                /\ \E script \in Scripts :
                                      InnerCatch(statuses, callbacks, r1.node, script)
                                /\ UNCHANGED opts
                           ELSE ReportSuccess(r1.node,
                                              Ran(Ran(hist, "cleanupZip"), "cleanupUnpacked"))
    /\ UNCHANGED <<sel, race, rm, helper, pub, bundle, backups, cfg, mode, call, outcome>>

Next ==
    \/ CheckForUpdate
    \/ FetchNotFound
    \/ FetchFails
    \/ FetchOk
    \/ Download
    \/ Unpack
    \/ Replace
    \/ Backup
    \/ Clear
    \/ Install
    \/ Rollback
    \/ SaveVersion
    \/ Cleanup

Spec == Init /\ [][Next]_vars

(***************************************************************************)
(* update(url): download, unpack, replace, then the removal of the archive *)
(* and of the extraction directory; the catch block removes what zipPath   *)
(* and unpackedPath name, ignoring errors, and rethrows.  outcome is what   *)
(* the promise of update settles with.  The steps of replace are the       *)
(* actions Backup, Clear, Install and Rollback above.                      *)
(***************************************************************************)
Update ==
    /\ pc = "idle"
    /\ mode' = "update"
    /\ call' = NoCall
    /\ hist' = [NoHist EXCEPT !.before = bundle]
    /\ pc' = "updateDownload"
    /\ UNCHANGED <<sel, race, rm, helper, pub, bundle, backups, zip, unpacked, cfg, opts,
                   statuses, callbacks, outcome>>

\* zipPath = await this.download(url); download unlinks an incomplete file
\* itself, ignoring errors, before it rethrows
UpdateDownload ==
    /\ pc = "updateDownload"
    /\ \/ \E a \in UpdateArchives :
            /\ zip' = File(Text("zip"))
            /\ hist' = [Ran(hist, "download") EXCEPT !.archive = a]
            /\ pc' = "updateUnpack"
            /\ UNCHANGED outcome
       \/ \E z \in {Absent, File(Text("incomplete"))} :
            /\ zip' = z
            /\ hist' = Failed(hist, "download")
            /\ outcome' = [result |-> "raised", at |-> "download", note |-> "none"]
            /\ pc' = "updateCatch"
    /\ UNCHANGED <<sel, race, rm, helper, pub, bundle, backups, unpacked, cfg, mode, opts,
                   call, statuses, callbacks>>

\* unpackedPath = await this.unpack(zipPath), then _findBundleSource; when
\* unpack throws, unpackedPath is not assigned
UpdateUnpack ==
    /\ pc = "updateUnpack"
    /\ \/ /\ unpacked' = hist.archive
          /\ hist' = Ran(hist, "unpack")
          /\ call' = [call EXCEPT !.newBundlePath = _findBundleSource(hist.archive)]
          /\ pc' = "backup"
          /\ UNCHANGED outcome
       \/ \E partial \in PartialExtractions(hist.archive) :
            /\ unpacked' = partial
            /\ hist' = Failed(hist, "unpack")
            /\ outcome' = [result |-> "raised", at |-> "unpack", note |-> "none"]
            /\ pc' = "updateCatch"
            /\ UNCHANGED call
    /\ UNCHANGED <<sel, race, rm, helper, pub, bundle, backups, zip, cfg, mode, opts,
                   statuses, callbacks>>

\* the removals after replace returned: an error of either goes to the catch
UpdateCleanup ==
    /\ pc = "updateCleanup"
    /\ \E s1 \in Scripts :
         LET r1 == IF Exists(zip)
                   THEN removePath(zip, DefaultRetries, DefaultDelay, s1, {})
                   ELSE [node |-> zip, threw |-> FALSE]
         IN  IF r1.threw
             THEN /\ zip' = r1.node
                  /\ hist' = Failed(hist, "cleanupZip")
                  /\ outcome' = [result |-> "raised", at |-> "cleanupZip", note |-> "none"]
                  /\ pc' = "updateCatch"
                  /\ UNCHANGED unpacked
             ELSE \E ch \in RemoveChoices(unpacked) :
                    LET r2 == IF Exists(unpacked)
                              THEN removePath(unpacked, DefaultRetries, DefaultDelay,
                                              ch.script, ch.keep)
                              ELSE [node |-> unpacked, threw |-> FALSE]
                    IN  /\ zip' = r1.node
                        /\ unpacked' = r2.node
                        /\ IF r2.threw
                           THEN /\ hist' = Failed(Ran(hist, "cleanupZip"), "cleanupUnpacked")
                                /\ outcome' = [result |-> "raised", at |-> "cleanupUnpacked",
                                               note |-> "none"]
                                /\ pc' = "updateCatch"
                           ELSE /\ hist' = Ran(Ran(hist, "cleanupZip"), "cleanupUnpacked")
                                /\ pc' = "done"
                                /\ UNCHANGED outcome
    /\ UNCHANGED <<sel, race, rm, helper, pub, bundle, backups, cfg, mode, opts, call,
                   statuses, callbacks>>

\* the catch block of update: removePath(zipPath) and removePath(unpackedPath)
\* for the paths that were assigned, errors ignored, then throw error
UpdateCatch ==
    /\ pc = "updateCatch"
    /\ \E s1 \in Scripts, ch \in RemoveChoices(unpacked) :
         LET zipPath == "download" \in hist.ran \ hist.failed
             unpackedPath == "unpack" \in hist.ran \ hist.failed
             r1 == IF zipPath /\ Exists(zip)
                   THEN removePath(zip, DefaultRetries, DefaultDelay, s1, {})
                   ELSE [node |-> zip, threw |-> FALSE]
             r2 == IF unpackedPath /\ Exists(unpacked)
                   THEN removePath(unpacked, DefaultRetries, DefaultDelay, ch.script, ch.keep)
                   ELSE [node |-> unpacked, threw |-> FALSE]
             h1 == IF r1.threw THEN Failed(hist, "catchZip") ELSE hist
         IN  /\ zip' = r1.node
             /\ unpacked' = r2.node
             /\ hist' = IF r2.threw THEN Failed(h1, "catchUnpacked") ELSE h1
    /\ pc' = "done"
    /\ UNCHANGED <<sel, race, rm, helper, pub, bundle, backups, cfg, mode, opts, call,
                   statuses, callbacks, outcome>>

UpdateNext ==
    \/ Update
    \/ UpdateDownload
    \/ UpdateUnpack
    \/ Backup
    \/ Clear
    \/ Install
    \/ Rollback
    \/ UpdateCleanup
    \/ UpdateCatch

UpdateSpec == Init /\ [][UpdateNext]_vars

(***************************************************************************)
(* removePath on its own: one call with any retries, delay and attempt     *)
(* outcomes, then a second call on the same path.                          *)
(***************************************************************************)
RemoveOutcomes ==
    {OkOutcome, Err("EBUSY", "busy"), Err("EPERM", "not permitted"),
     Err("EACCES", "denied"), Err("ENOTEMPTY", "not empty"),
     Err("EUNKNOWN", "file is locked"), Err("EUNKNOWN", "resource in use"),
     Err("EIO", "disk failure")}

RemoveScripts == [1..MaxRetries -> RemoveOutcomes]

RemoveTargets == {Absent, File(Text("zip")), FlatArchive}

RemoveDelays == {DefaultDelay, 2 * DefaultDelay + 50}

RemoveInit ==
    /\ bundle = Absent
    /\ backups = <<>>
    /\ zip = Absent
    /\ unpacked = Absent
    /\ cfg = [backup |-> TRUE, platform |-> "linux", basename |-> "package.nw"]
    /\ pc = "idle"
    /\ mode = "none"
    /\ opts = NoOpts
    /\ call = NoCall
    /\ hist = NoHist
    /\ statuses = <<>>
    /\ callbacks = <<>>
    /\ outcome = NoOutcome
    /\ helper = NoHelper
    /\ pub = NoPub
    /\ sel = NoSel
    /\ race = NoRace
    /\ \E target \in RemoveTargets, retries \in -1..MaxRetries, delay \in RemoveDelays,
          script \in RemoveScripts :
          \E keep \in {{}, Names(target)} :
             rm = [NoRemove EXCEPT !.target = target, !.retries = retries,
                                   !.delay = delay, !.script = script, !.keep = keep]

\* await removePath(target, retries, delay)
RemoveCall ==
    /\ rm.calls = 0
    /\ rm' = [rm EXCEPT !.calls = 1,
                        !.first = removePath(rm.target, rm.retries, rm.delay,
                                             rm.script, rm.keep)]
    /\ UNCHANGED <<sel, race, bundle, backups, zip, unpacked, cfg, pc, mode, opts, call, hist,
                   statuses, callbacks, outcome, helper, pub>>

\* the same call again on what the first call left at the path
RemoveAgain ==
    /\ rm.calls = 1
    /\ \E o \in RemoveOutcomes :
          rm' = [rm EXCEPT !.calls = 2,
                           !.second = removePath(rm.first.node, rm.retries, rm.delay,
                                                 [k \in 1..MaxRetries |-> o], {})]
    /\ UNCHANGED <<sel, race, bundle, backups, zip, unpacked, cfg, pc, mode, opts, call, hist,
                   statuses, callbacks, outcome, helper, pub>>

RemoveNext ==
    \/ RemoveCall
    \/ RemoveAgain

RemoveSpec == RemoveInit /\ [][RemoveNext]_vars

(***************************************************************************)
(* copyDirectory and removeDirectoryContents on their own: one call on any *)
(* source and destination of the sets below.                               *)
(***************************************************************************)
\* the updater and the other studies at rest
AtRest ==
    /\ bundle = Absent
    /\ backups = <<>>
    /\ zip = Absent
    /\ unpacked = Absent
    /\ cfg = [backup |-> TRUE, platform |-> "linux", basename |-> "package.nw"]
    /\ pc = "idle"
    /\ mode = "none"
    /\ opts = NoOpts
    /\ call = NoCall
    /\ hist = NoHist
    /\ statuses = <<>>
    /\ callbacks = <<>>
    /\ outcome = NoOutcome

\* a directory with a file and an empty subdirectory
SparseTree ==
    Dir([n \in {"c.txt", "sub"} |->
            IF n = "c.txt" THEN File(Text("new-c")) ELSE Dir(EmptyEntries)])

\* a directory in which sub is a file
FileAtSub ==
    Dir([n \in {"a.txt", "sub"} |->
            IF n = "a.txt" THEN File(Text("old-a")) ELSE File(Text("old-sub"))])

HelperSources ==
    {FlatArchive, WrappedArchive, EmptyArchive, SparseTree,
     OldBundle(PkgJson(1, "old")), Absent}

HelperDestinations ==
    {Absent, Dir(EmptyEntries), OldBundle(PkgJson(1, "old")), FlatArchive, FileAtSub,
     File(Text("zip"))}

HelperInit ==
    /\ AtRest
    /\ rm = NoRemove
    /\ pub = NoPub
    /\ sel = NoSel
    /\ race = NoRace
    /\ \/ \E source \in HelperSources, destination \in HelperDestinations :
            \E left \in CopyFaults(source) :
               helper = [NoHelper EXCEPT !.op = "copyDirectory", !.source = source,
                                         !.destination = destination, !.left = left]
       \/ \E dirPath \in HelperDestinations :
            \E scriptOf \in ContentsChoices(dirPath) :
               helper = [NoHelper EXCEPT !.op = "removeDirectoryContents",
                                         !.destination = dirPath, !.scriptOf = scriptOf]

\* await copyDirectory(source, destination)
CopyCall ==
    /\ helper.op = "copyDirectory"
    /\ ~helper.done
    /\ LET r == CopyDirectory(helper.source, helper.destination, helper.left)
       IN  helper' = [helper EXCEPT !.done = TRUE, !.node = r.node, !.ok = r.ok]
    /\ UNCHANGED <<sel, race, bundle, backups, zip, unpacked, cfg, pc, mode, opts, call, hist,
                   statuses, callbacks, outcome, rm, pub>>

\* await removeDirectoryContents(dirPath)
ContentsCall ==
    /\ helper.op = "removeDirectoryContents"
    /\ ~helper.done
    /\ LET r == removeDirectoryContents(helper.destination, helper.scriptOf)
       IN  helper' = [helper EXCEPT !.done = TRUE, !.node = r.node, !.ok = ~r.threw]
    /\ UNCHANGED <<sel, race, bundle, backups, zip, unpacked, cfg, pc, mode, opts, call, hist,
                   statuses, callbacks, outcome, rm, pub>>

HelperNext ==
    \/ CopyCall
    \/ ContentsCall

HelperSpec == HelperInit /\ [][HelperNext]_vars

(***************************************************************************)
(* The publish tool: runs of main, one after another, on one channel.  The *)
(* channel is the bucket's update.json (exists, manifest) and its archives *)
(* (the version suffixes of the update-v<N>.zip keys).  pub.issued is the  *)
(* history of the versions main saved, pub.before the manifest of the      *)
(* channel when the last run started, pub.completed whether that run got   *)
(* to "Update published successfully".                                     *)
(***************************************************************************)
\* the outcomes of the request behind getUpdateJson: the object is served, or
\* the request fails with something other than NoSuchKey (network, access,
\* a body that is not JSON)
FetchFaults == {"none", "throws"}

\* getUpdateJson: the parsed update.json; [] when the key does not exist; any
\* other error is rethrown
getUpdateJson(exists, manifest, fault) ==
    IF fault # "none"
    THEN [threw |-> TRUE, updates |-> <<>>]
    ELSE IF ~exists
    THEN [threw |-> FALSE, updates |-> <<>>]
    ELSE [threw |-> FALSE, updates |-> manifest]

\* Math.max(...updates.map(u => u.version)) of a non-empty array
maxVersion(updates) ==
    CHOOSE m \in {updates[i].version : i \in 1..Len(updates)} :
        \A i \in 1..Len(updates) : updates[i].version <= m

\* getNextVersion
getNextVersion(updates) ==
    IF Len(updates) = 0 THEN 1 ELSE maxVersion(updates) + 1

\* the entry main pushes; the download url is the url of the key
\* update-v<nextVersion>.zip, written here as the version suffix
newUpdate(nextVersion) ==
    [version |-> nextVersion, enable |-> TRUE, download |-> nextVersion]

PublishInit ==
    /\ AtRest
    /\ rm = NoRemove
    /\ helper = NoHelper
    /\ pub = [NoPub EXCEPT !.pc = "idle"]
    /\ sel = NoSel
    /\ race = NoRace

\* main up to "Next update version": let updates = []; try { updates = await
\* getUpdateJson(...) } catch { "starting fresh" }; getNextVersion(updates)
PublishFetch ==
    /\ pub.pc = "idle"
    /\ pub.runs < MaxPublishes
    /\ \E fault \in FetchFaults :
          LET r == getUpdateJson(pub.exists, pub.manifest, fault)
              updates == IF r.threw THEN <<>> ELSE r.updates
          IN  pub' = [pub EXCEPT !.pc = "versioned", !.runs = @ + 1,
                                 !.before = pub.manifest, !.completed = FALSE,
                                 !.read = ~r.threw, !.updates = updates,
                                 !.nextVersion = getNextVersion(updates)]
    /\ UNCHANGED <<sel, race, bundle, backups, zip, unpacked, cfg, pc, mode, opts, call, hist,
                   statuses, callbacks, outcome, rm, helper>>

\* createZipFromDirectory and uploadFile: the archive is put under the key of
\* nextVersion (a put replaces an object of the same key); when either throws,
\* main rejects and the process exits
PublishUpload ==
    /\ pub.pc = "versioned"
    /\ \E ok \in BOOLEAN :
          pub' = IF ok
                 THEN [pub EXCEPT !.pc = "uploaded",
                                  !.archives = @ \cup {pub.nextVersion}]
                 ELSE [pub EXCEPT !.pc = "idle"]
    /\ UNCHANGED <<sel, race, bundle, backups, zip, unpacked, cfg, pc, mode, opts, call, hist,
                   statuses, callbacks, outcome, rm, helper>>

\* updates.push(newUpdate); await saveUpdateJson(...): update.json is replaced
\* by the array of this run, or the put fails and main rejects
PublishSave ==
    /\ pub.pc = "uploaded"
    /\ \E ok \in BOOLEAN :
          LET updates == Append(pub.updates, newUpdate(pub.nextVersion))
          IN  pub' = IF ok
                     THEN [pub EXCEPT !.pc = "idle", !.updates = updates,
                                      !.exists = TRUE, !.manifest = updates,
                                      !.completed = TRUE,
                                      !.issued = Append(@, pub.nextVersion)]
                     ELSE [pub EXCEPT !.pc = "idle", !.updates = updates]
    /\ UNCHANGED <<sel, race, bundle, backups, zip, unpacked, cfg, pc, mode, opts, call, hist,
                   statuses, callbacks, outcome, rm, helper>>

PublishNext ==
    \/ PublishFetch
    \/ PublishUpload
    \/ PublishSave

PublishSpec == PublishInit /\ [][PublishNext]_vars

(***************************************************************************)
(* The selection of checkForUpdate on its own: filter, sort, take first,   *)
(* applied twice to one manifest and one current version (sel).            *)
(***************************************************************************)
\* const latestUpdate = availableUpdates[0], NoEntry when the call returns at
\* no-update because availableUpdates is empty
latestUpdate(updates, currentVersion) ==
    LET available == availableUpdates(updates, currentVersion)
    IN  IF Len(available) = 0 THEN NoEntry ELSE available[1]

SelectManifests == SeqsUpTo(Entries, MaxManifestLen + 1)

SelectInit ==
    /\ AtRest
    /\ rm = NoRemove
    /\ helper = NoHelper
    /\ pub = NoPub
    /\ race = NoRace
    /\ \E updates \in SelectManifests, currentVersion \in 0..MaxVersion :
          sel = [NoSel EXCEPT !.updates = updates, !.currentVersion = currentVersion]

SelectCall ==
    /\ sel.calls < 2
    /\ LET chosen == latestUpdate(sel.updates, sel.currentVersion)
       IN  sel' = IF sel.calls = 0
                  THEN [sel EXCEPT !.calls = 1, !.first = chosen]
                  ELSE [sel EXCEPT !.calls = 2, !.second = chosen]
    /\ UNCHANGED <<race, bundle, backups, zip, unpacked, cfg, pc, mode, opts, call, hist,
                   statuses, callbacks, outcome, rm, helper, pub>>

SelectNext == SelectCall

SelectSpec == SelectInit /\ [][SelectNext]_vars

(***************************************************************************)
(* Two overlapping calls on one bundle path.  Each call is the part of     *)
(* checkForUpdate from "replacing" on: replace(bundleSource), then         *)
(* _saveVersion(latestUpdate.version).  A call gives up control at its     *)
(* awaits (createBackup, removePath, copyDirectory), so the steps of the   *)
(* two calls interleave; no step fails here.  A step runs to its await     *)
(* without interruption, which the scheduler allows, so every behaviour of *)
(* this specification is a behaviour of the code.  race.trace lists the    *)
(* calls in the order their steps ran.                                     *)
(***************************************************************************)
Calls == {1, 2}

\* two new contents that differ in their file names
ContentOne ==
    Dir([n \in {"package.json", "a.txt"} |->
            IF n = "package.json" THEN File(PkgJson(-1, "one")) ELSE File(Text("one-a"))])

ContentTwo ==
    Dir([n \in {"package.json", "c.txt"} |->
            IF n = "package.json" THEN File(PkgJson(-1, "two")) ELSE File(Text("two-c"))])

RaceContents == {ContentOne, ContentTwo}

RaceInit ==
    /\ bundle \in {OldBundle(PkgJson(-1, "old")), Absent}
    /\ backups = <<>>
    /\ zip = Absent
    /\ unpacked = Absent
    /\ cfg \in {[backup |-> b, platform |-> "linux", basename |-> "package.nw"] :
                   b \in BOOLEAN}
    /\ pc = "idle"
    /\ mode = "none"
    /\ opts = NoOpts
    /\ call = NoCall
    /\ hist = NoHist
    /\ statuses = <<>>
    /\ callbacks = <<>>
    /\ outcome = NoOutcome
    /\ rm = NoRemove
    /\ helper = NoHelper
    /\ pub = NoPub
    /\ sel = NoSel
    /\ \E c1 \in RaceContents, c2 \in RaceContents, v1 \in 1..MaxVersion, v2 \in 1..MaxVersion :
          race = [NoRace EXCEPT !.pc = <<"backup", "backup">>, !.content = <<c1, c2>>,
                                !.version = <<v1, v2>>, !.before = bundle]

\* replace: if (this.backup && fs.existsSync(this.bundlePath)) createBackup()
RaceBackup(p) ==
    /\ race.pc[p] = "backup"
    /\ IF cfg.backup /\ Exists(bundle)
       THEN /\ backups' = Append(backups,
                              CopyDirectory(bundle, Absent, FileCount(bundle)).node)
            /\ race' = [race EXCEPT !.pc[p] = "clear", !.trace = Append(@, p),
                                    !.backupPath[p] = Len(backups) + 1]
       ELSE /\ race' = [race EXCEPT !.pc[p] = "clear", !.trace = Append(@, p)]
            /\ UNCHANGED backups
    /\ UNCHANGED <<sel, bundle, zip, unpacked, cfg, pc, mode, opts, call, hist,
                   statuses, callbacks, outcome, rm, helper, pub>>

\* replace: if (fs.existsSync(this.bundlePath)) await removePath(this.bundlePath)
RaceClear(p) ==
    /\ race.pc[p] = "clear"
    /\ bundle' = IF Exists(bundle)
                 THEN removePath(bundle, DefaultRetries, DefaultDelay, OkScript, {}).node
                 ELSE bundle
    /\ race' = [race EXCEPT !.pc[p] = "install", !.trace = Append(@, p)]
    /\ UNCHANGED <<sel, backups, zip, unpacked, cfg, pc, mode, opts, call, hist,
                   statuses, callbacks, outcome, rm, helper, pub>>

\* faulty variant of RaceInstall: the new content replaces whatever another
\* call has put into the directory meanwhile
RaceInstallExclusive(p) ==
    /\ race.pc[p] = "install"
    /\ bundle' = CopyDirectory(race.content[p], Absent, FileCount(race.content[p])).node
    /\ race' = [race EXCEPT !.pc[p] = "save", !.trace = Append(@, p)]
    /\ UNCHANGED <<sel, backups, zip, unpacked, cfg, pc, mode, opts, call, hist,
                   statuses, callbacks, outcome, rm, helper, pub>>

\* replace: mkdirSync of the bundle directory when it is not there, then
\* copyDirectory(newBundlePath, this.bundlePath) into whatever is there
RaceInstall(p) ==
    /\ race.pc[p] = "install"
    /\ bundle' = CopyDirectory(race.content[p], bundle, FileCount(race.content[p])).node
    /\ race' = [race EXCEPT !.pc[p] = "save", !.trace = Append(@, p)]
    /\ UNCHANGED <<sel, backups, zip, unpacked, cfg, pc, mode, opts, call, hist,
                   statuses, callbacks, outcome, rm, helper, pub>>

\* checkForUpdate: this._saveVersion(latestUpdate.version) after replace returned
RaceSave(p) ==
    /\ race.pc[p] = "save"
    /\ bundle' = _saveVersion(bundle, race.version[p], TRUE)
    /\ race' = [race EXCEPT !.pc[p] = "done", !.trace = Append(@, p)]
    /\ UNCHANGED <<sel, backups, zip, unpacked, cfg, pc, mode, opts, call, hist,
                   statuses, callbacks, outcome, rm, helper, pub>>

RaceNext ==
    \E p \in Calls :
        \/ RaceBackup(p)
        \/ RaceClear(p)
        \/ RaceInstall(p)
        \/ RaceSave(p)

RaceSpec == RaceInit /\ [][RaceNext]_vars

(***************************************************************************)
(* Vocabulary of the claims.                                               *)
(***************************************************************************)
HappyPath ==
    <<"checking", "update-found", "downloading", "downloaded", "unpacking",
      "unpacked", "replacing", "replaced", "saving", "cleaning", "success",
      "restart-needed">>

CheckDone == mode = "check" /\ pc = "done"

\* replace has just returned or raised
ReplaceEnded ==
    /\ outcome.result # "none"
    /\ (mode = "check" /\ outcome.result = "returned") => pc = "save"

CallbackNames == [i \in 1..Len(callbacks) |-> callbacks[i].name]

TerminalCallbacks ==
    {i \in 1..Len(callbacks) :
        callbacks[i].name \in {"noUpdate", "updateSuccess", "updateFail"}}

NonEmptyDir(node) == node.kind = "dir" /\ Names(node) # {}

\* nothing on the filesystem differs from the start of the call
NoSideEffects ==
    /\ bundle = hist.before
    /\ backups = <<>>
    /\ zip = Absent
    /\ unpacked = Absent
    /\ hist.ran = {}

ReplaceSteps == {"backup", "clear", "install", "rollback"}

(***************************************************************************)
(* C1: the entry checkForUpdate selects from a manifest array is one of    *)
(* the enabled entries above the current version with the highest version; *)
(* when there is no such entry nothing is selected and the call ends with  *)
(* no-update.                                                              *)
(***************************************************************************)
C1_SelectsMaxEligible ==
    (mode = "check" /\ hist.response = "ok" /\ hist.body = "array") =>
        IF hist.best = {}
        THEN /\ pc = "done"
             /\ call.latestUpdate = NoEntry
             /\ statuses = <<"checking", "no-update">>
             /\ CallbackNames = <<"noUpdate">>
        ELSE /\ call.latestUpdate \in hist.best
             /\ callbacks[1] = Seen(Callback("updateFound", call.latestUpdate, "none"), 2)

\* a selection of version 2 over current version 1 among two entries of version 2
C1_Witness ==
    /\ pc = "download"
    /\ call.currentVersion = 1
    /\ Cardinality(hist.best) = 2
    /\ call.latestUpdate \in hist.best
    /\ call.latestUpdate.version = 2

(***************************************************************************)
(* C2: when an eligible entry exists and download, unpack, replace, save   *)
(* and cleanup all succeed, the tokens passed to onStatus are exactly the  *)
(* twelve tokens of the happy path, in order.                              *)
(***************************************************************************)
C2_HappyPathStatuses ==
    ( /\ CheckDone
      /\ hist.best # {}
      /\ outcome.result = "returned"
      /\ {"download", "unpack", "save", "cleanupZip", "cleanupUnpacked"} \subseteq hist.ran
      /\ hist.failed \cap ({"download", "unpack", "save", "cleanupZip", "cleanupUnpacked"}
                              \cup ReplaceSteps) = {} )
        => statuses = HappyPath

(***************************************************************************)
(* C3: every finished checkForUpdate call has invoked exactly one of       *)
(* noUpdate, updateSuccess, updateFail, exactly once.                      *)
(***************************************************************************)
C3_ExactlyOneTerminalCallback ==
    CheckDone => Cardinality(TerminalCallbacks) = 1

C6_WrappedOriginalError ==
    ( /\ ReplaceEnded
      /\ outcome.result = "raised"
      /\ hist.failed \cap {"clear", "install"} # {}
      /\ call.backupPath # 0 )
        => /\ outcome.at \in {"clear", "install"}
           /\ outcome.note # "none"

C9_NotFoundIsNoUpdate ==
    (mode = "check" /\ hist.response = "404") =>
        /\ pc = "done"
        /\ statuses = <<"checking", "no-update">>
        /\ CallbackNames = <<"noUpdate">>
        /\ NoSideEffects
        /\ getCurrentVersion(bundle) = getCurrentVersion(hist.before)

\* a 404 answer for a bundle at version 1
C9_Witness ==
    /\ CheckDone
    /\ hist.response = "404"
    /\ getCurrentVersion(bundle) = 1
    /\ CallbackNames = <<"noUpdate">>

(***************************************************************************)
(* C10: a manifest that is empty, is not an array or holds no eligible     *)
(* entry ends the call at no-update, then noUpdate, with no side effects.  *)
(***************************************************************************)
C10_NothingEligibleIsNoUpdate ==
    ( /\ mode = "check"
      /\ hist.response = "ok"
      /\ hist.body # "array" \/ hist.best = {} )
        => /\ pc = "done"
           /\ statuses = <<"checking", "no-update">>
           /\ CallbackNames = <<"noUpdate">>
           /\ NoSideEffects

(***************************************************************************)
(* C11: when the manifest request fails with anything but a 404, the       *)
(* statuses are exactly checking, error; updateFail is invoked once and    *)
(* nothing is downloaded, unpacked or replaced.                            *)
(***************************************************************************)
C11_FetchErrorReportedOnce ==
    (mode = "check" /\ hist.response = "error") =>
        /\ pc = "done"
        /\ statuses = <<"checking", "error">>
        /\ CallbackNames = <<"updateFail">>
        /\ NoSideEffects

(***************************************************************************)
(* C12: the entry passed to updateFound and downloaded is enabled and its  *)
(* version is strictly greater than the current version of the check.      *)
(***************************************************************************)
C12_NoIneligibleInstall ==
    mode = "check" =>
        /\ call.latestUpdate # NoEntry =>
              /\ call.latestUpdate.enable
              /\ call.latestUpdate.version > call.currentVersion
        /\ \A i \in 1..Len(callbacks) :
              callbacks[i].name = "updateFound" =>
                  /\ callbacks[i].update = call.latestUpdate
                  /\ callbacks[i].update.enable
                  /\ callbacks[i].update.version > call.currentVersion
        /\ "download" \in hist.ran => call.latestUpdate # NoEntry

\* version 2 downloaded over a current version 1 given in the options while
\* the bundle holds version 2
C12_Witness ==
    /\ mode = "check"
    /\ "download" \in hist.ran \ hist.failed
    /\ opts.currentVersion = 1
    /\ getCurrentVersion(hist.before) = 2
    /\ call.latestUpdate.version = 2
    /\ call.latestUpdate.enable

\* the errors the retry policy names as transient locks
TransientLock(e) ==
    \/ e.code \in {"EBUSY", "EPERM", "EACCES", "ENOTEMPTY"}
    \/ e.message \in {"file is locked", "resource in use", "locked and in use"}

(***************************************************************************)
(* C13 as claimed: a path that is locked at every attempt is retried       *)
(* maxRetries times, with a wait of retryDelayMs * k before the k-th       *)
(* retry, before the last error is raised.                                 *)
(***************************************************************************)
C13_Original ==
    ( /\ rm.calls >= 1
      /\ Exists(rm.target)
      /\ rm.retries >= 1
      /\ \A k \in 1..MaxRetries : TransientLock(rm.script[k]) )
        => /\ rm.first.threw
           /\ rm.first.waits = [k \in 1..rm.retries |-> rm.delay * k]

(***************************************************************************)
(* C13 amended: removePath makes at most maxRetries attempts in all, that  *)
(* is at most maxRetries - 1 retries; it waits retryDelayMs * k before the *)
(* k-th retry; every attempt but the last failed with a transient lock;    *)
(* a lock error is raised only at attempt maxRetries, any other error at   *)
(* its first occurrence; a call that returns has removed the path.         *)
(***************************************************************************)
C13_RetryPolicy ==
    (rm.calls >= 1 /\ Exists(rm.target) /\ rm.retries >= 1) =>
        LET r == rm.first
            n == r.attempts
        IN  /\ n \in 1..rm.retries
            /\ r.waits = [k \in 1..(n - 1) |-> rm.delay * k]
            /\ \A k \in 1..(n - 1) : TransientLock(rm.script[k])
            /\ r.threw <=> rm.script[n].code # "ok"
            /\ r.threw => /\ r.error = rm.script[n]
                          /\ TransientLock(rm.script[n]) => n = rm.retries
            /\ ~r.threw => r.node = Absent

\* three attempts at a locked directory, the second lock told by its message:
\* waits of 100 and 200, then the third error is raised
C13_Witness ==
    /\ rm.calls >= 1
    /\ rm.target = FlatArchive
    /\ rm.retries = 3
    /\ rm.script[1].code = "EBUSY"
    /\ rm.script[2] = Err("EUNKNOWN", "file is locked")
    /\ rm.script[3].code = "EACCES"
    /\ rm.first.threw
    /\ rm.first.error = rm.script[3]
    /\ rm.first.waits = <<100, 200>>

(***************************************************************************)
(* C14: removePath on an absent path returns without raising, and a second *)
(* removePath on a path the first call returned from does not raise.       *)
(***************************************************************************)
C14_RemoveIdempotent ==
    /\ (rm.calls >= 1 /\ ~Exists(rm.target)) =>
           /\ ~rm.first.threw
           /\ rm.first.node = Absent
           /\ rm.first.waits = <<>>
    /\ (rm.calls = 2 /\ ~rm.first.threw) =>
           /\ ~rm.second.threw
           /\ rm.second.node = rm.first.node
           /\ rm.second.waits = <<>>

\* a directory removed at the second attempt, then removed again
C14_Witness ==
    /\ rm.calls = 2
    /\ rm.target = FlatArchive
    /\ rm.first.attempts = 2
    /\ ~rm.first.threw
    /\ rm.first.node = Absent
    /\ ~rm.second.threw

(***************************************************************************)
(* C15: when a checkForUpdate call that started a download ends, with      *)
(* success or with an error, neither the archive file nor the extraction   *)
(* directory remains, unless a removal failed.  The archive remains only   *)
(* when its removal failed.                                                *)
(***************************************************************************)
C15_TemporaryFilesRemoved ==
    (CheckDone /\ "download" \in hist.ran) =>
        \/ zip = Absent /\ unpacked = Absent
        \/ hist.failed \cap {"cleanupZip", "cleanupUnpacked"} # {}
        \/ Exists(zip)

(***************************************************************************)
(* C16: when the write of _saveVersion fails, checkForUpdate goes on to    *)
(* cleaning; when no other step fails it emits success and restart-needed  *)
(* and invokes updateSuccess, and neither updateFail nor the error status. *)
(***************************************************************************)
C16_SaveFailureNotEscalated ==
    (mode = "check" /\ "save" \in hist.failed) =>
        /\ Len(statuses) >= 10
        /\ SubSeq(statuses, 1, 10) = SubSeq(HappyPath, 1, 10)
        /\ (pc = "done" /\ hist.failed = {"save"}) =>
               /\ statuses = HappyPath
               /\ \E i \in 1..Len(callbacks) : callbacks[i].name = "updateSuccess"
               /\ \A i \in 1..Len(callbacks) : callbacks[i].name # "updateFail"
               /\ \A i \in 1..Len(statuses) : statuses[i] # "error"

\* an update installed whose version could not be written, reported as a success
C16_Witness ==
    /\ CheckDone
    /\ hist.failed = {"save"}
    /\ statuses = HappyPath
    /\ CallbackNames = <<"updateFound", "updateSuccess", "onNeedRestart">>
    /\ call.latestUpdate.version = 2
    /\ getCurrentVersion(bundle) # 2

C18_CurrentVersionFromOptions ==
    mode = "check" =>
        LET given == opts.currentVersion # -1
            used == IF given THEN opts.currentVersion ELSE getCurrentVersion(hist.before)
        IN  /\ call.currentVersion = used
            /\ call.latestUpdate # NoEntry => call.latestUpdate.version > used
            /\ \A e \in hist.best : e.version > used

\* the option 0 given for a bundle at version 2: version 1 is selected
C18_Witness ==
    /\ mode = "check"
    /\ pc = "download"
    /\ opts.currentVersion = 0
    /\ getCurrentVersion(hist.before) = 2
    /\ call.currentVersion = 0
    /\ call.latestUpdate.version = 1

(***************************************************************************)
(* C19: when the backup step of replace fails, replace raises with the     *)
(* bundle directory as it was before the call, and no clear, install or    *)
(* rollback step runs.                                                     *)
(***************************************************************************)
C19_BackupFailureTouchesNothing ==
    "backup" \in hist.failed =>
        /\ bundle = hist.before
        /\ outcome = [result |-> "raised", at |-> "backup", note |-> "none"]
        /\ hist.ran \cap {"clear", "install", "rollback", "removeBundleDir", "save"} = {}
        /\ pc = "done"

\* a backup that stopped after its first file: replace raised, the bundle is whole
C19_Witness ==
    /\ mode = "replace"
    /\ pc = "done"
    /\ "backup" \in hist.failed
    /\ Len(backups) = 1
    /\ FileCount(backups[1]) = 1
    /\ bundle = hist.before
    /\ FileCount(bundle) = 3
    /\ outcome.result = "raised"

\* the removal of the bundle has run in the call, in the clear step or the rollback
BundleRemovalRan == hist.ran \cap {"clear", "rollback"} # {}

(***************************************************************************)
(* C20: on Windows with a bundle directory named package.nw that exists,   *)
(* the clear step and the rollback never remove the directory itself and   *)
(* it exists at every step; otherwise a clear step that succeeds on an     *)
(* existing bundle removes the whole directory and creates it again.       *)
(***************************************************************************)
C20_PackageNwPreserved ==
    (mode # "none" /\ Exists(hist.before)) =>
        IF cfg.platform = "win32" /\ cfg.basename = "package.nw"
        THEN /\ "removeBundleDir" \notin hist.ran
             /\ bundle.kind = "dir"
             /\ (pc \in {"clear", "install", "rollback"} \/ BundleRemovalRan)
                    => call.shouldPreserveDirectory
        ELSE /\ ~call.shouldPreserveDirectory
             /\ ("clear" \in hist.ran \ hist.failed) =>
                    /\ "removeBundleDir" \in hist.ran
                    /\ bundle.kind = "dir"

\* on Windows the entries of package.nw were cleared and restored by the rollback
C20_Witness ==
    /\ cfg.platform = "win32"
    /\ cfg.basename = "package.nw"
    /\ "clear" \in hist.ran \ hist.failed
    /\ "install" \in hist.failed
    /\ "rollback" \in hist.ran \ hist.failed
    /\ "removeBundleDir" \notin hist.ran
    /\ bundle = hist.before
    /\ NonEmptyDir(bundle)

(***************************************************************************)
(* C21: after createBackup the backup holds the files of the bundle, the   *)
(* nested ones included, with the same contents; after the bundle was      *)
(* cleared or left in part, copying the backup back gives every file back  *)
(* with the same content.                                                  *)
(***************************************************************************)
C21_BackupRoundTrip ==
    /\ ("backup" \in hist.ran \ hist.failed) =>
           /\ call.backupPath # 0
           /\ backups[call.backupPath] = hist.before
    /\ ("rollback" \in hist.ran \ hist.failed) =>
           /\ bundle = backups[call.backupPath]
           /\ bundle = hist.before

\* a bundle with a.txt and sub/b.txt left in part by a failed clear step and
\* restored from its backup
C21_Witness ==
    /\ mode = "replace"
    /\ pc = "done"
    /\ "clear" \in hist.failed
    /\ "rollback" \in hist.ran \ hist.failed
    /\ backups[1] = hist.before
    /\ bundle.entries["a.txt"] = File(Text("old-a"))
    /\ bundle.entries["sub"].entries["b.txt"] = File(Text("old-b"))
    /\ bundle = hist.before

RECURSIVE Covers(_, _)

\* every file and subdirectory of the directory src is in dst, files with the
\* same content
Covers(src, dst) ==
    /\ dst.kind = "dir"
    /\ \A n \in Names(src) :
          /\ n \in Names(dst)
          /\ IF src.entries[n].kind = "dir"
             THEN Covers(src.entries[n], dst.entries[n])
             ELSE dst.entries[n] = src.entries[n]

RECURSIVE Kept(_, _, _)

\* every entry of old whose relative path is not in src is in new unchanged
Kept(old, new, src) ==
    IF old.kind # "dir"
    THEN old.kind = "absent" \/ new = old
    ELSE /\ new.kind = "dir"
         /\ \A n \in Names(old) :
               /\ n \in Names(new)
               /\ IF src.kind = "dir" /\ n \in Names(src)
                  THEN (old.entries[n].kind = "dir" /\ src.entries[n].kind = "dir")
                          => Kept(old.entries[n], new.entries[n], src.entries[n])
                  ELSE new.entries[n] = old.entries[n]

(***************************************************************************)
(* C22: copyDirectory never deletes or changes an entry of destination     *)
(* whose relative path is not in source, and a call that returns has       *)
(* created destination and written every file and subdirectory of source.  *)
(***************************************************************************)
C22_CopyIsAdditive ==
    (helper.op = "copyDirectory" /\ helper.done) =>
        /\ Kept(helper.destination, helper.node, helper.source)
        /\ helper.ok => Covers(helper.source, helper.node)

(***************************************************************************)
(* C23: removeDirectoryContents leaves the directory itself in place, and  *)
(* empty when it returns; on a path that does not exist or is not a        *)
(* directory it changes nothing and returns.                               *)
(***************************************************************************)
C23_ContentsRemovedDirectoryKept ==
    (helper.op = "removeDirectoryContents" /\ helper.done) =>
        IF helper.destination.kind = "dir"
        THEN /\ helper.node.kind = "dir"
             /\ helper.ok => helper.node = Dir(EmptyEntries)
             /\ Names(helper.node) \subseteq Names(helper.destination)
        ELSE /\ helper.node = helper.destination
             /\ helper.ok

\* a directory with package.json, a.txt and sub/b.txt emptied
C23_Witness ==
    /\ helper.op = "removeDirectoryContents"
    /\ helper.done
    /\ helper.ok
    /\ helper.destination = OldBundle(PkgJson(1, "old"))
    /\ helper.node = Dir(EmptyEntries)

C25_ProgressReported ==
    (mode = "check" /\ "download" \in hist.ran \ hist.failed) =>
        \E i \in 1..Len(callbacks) : callbacks[i].name = "progress"

(***************************************************************************)
(* C26: a publish run assigns version 1 when the channel manifest is empty *)
(* and otherwise 1 + the maximum version in the manifest, and the versions *)
(* in update.json are pairwise distinct and strictly increasing in         *)
(* insertion order after any sequence of runs.                             *)
(***************************************************************************)
C26_NextVersionFromManifest ==
    /\ pub.pc \in {"versioned", "uploaded"} =>
          pub.nextVersion = IF pub.manifest = <<>> THEN 1
                            ELSE 1 + maxVersion(pub.manifest)
    /\ \A i, j \in 1..Len(pub.manifest) :
          i < j => pub.manifest[i].version < pub.manifest[j].version

\* s is an initial part of t
IsPrefix(s, t) ==
    /\ Len(s) <= Len(t)
    /\ \A i \in 1..Len(s) : s[i] = t[i]

(***************************************************************************)
(* C27: the tokens passed to onStatus form a prefix of the happy-path      *)
(* sequence, optionally ended by one terminal token: no-update directly    *)
(* after checking, or error after any prefix; nothing follows no-update,   *)
(* error or restart-needed, and error is emitted at most once.             *)
(***************************************************************************)
C27_StatusGrammar ==
    \/ IsPrefix(statuses, HappyPath)
    \/ statuses = <<"checking", "no-update">>
    \/ /\ Len(statuses) >= 1
       /\ statuses[Len(statuses)] = "error"
       /\ Len(statuses) - 1 < Len(HappyPath)
       /\ IsPrefix(SubSeq(statuses, 1, Len(statuses) - 1), HappyPath)

(***************************************************************************)
(* C28: after replace(newBundlePath) returned on an existing bundle, the   *)
(* bundle directory holds exactly the files of newBundlePath with the same *)
(* contents: nothing of the old bundle remains, whether the directory was  *)
(* removed and recreated or only emptied (package.nw on Windows).          *)
(***************************************************************************)
C28_BundleIsNewContent ==
    (ReplaceEnded /\ outcome.result = "returned" /\ Exists(hist.before)) =>
        bundle = call.newBundlePath

\* the contents-only path, over an old bundle with a file the new content lacks
C28_Witness ==
    /\ ReplaceEnded
    /\ outcome.result = "returned"
    /\ call.shouldPreserveDirectory
    /\ "removeBundleDir" \notin hist.ran
    /\ hist.before.kind = "dir"
    /\ call.newBundlePath.kind = "dir"
    /\ Names(hist.before) \ Names(call.newBundlePath) # {}
    /\ bundle = call.newBundlePath

C30_CleanupFailureStaysSuccess ==
    ( /\ CheckDone
      /\ outcome.result = "returned"
      /\ "save" \in hist.ran \ hist.failed
      /\ hist.failed \cap {"cleanupZip", "cleanupUnpacked"} # {} )
        => /\ \E i \in 1..Len(statuses) : statuses[i] = "success"
           /\ \E i \in 1..Len(callbacks) : callbacks[i].name = "updateSuccess"
           /\ \A i \in 1..Len(statuses) : statuses[i] # "error"
           /\ \A i \in 1..Len(callbacks) : callbacks[i].name # "updateFail"

\* the positions of the manifest whose entry is eligible with the highest version
BestAt(updates, c) == {i \in 1..Len(updates) : updates[i] \in Best(updates, c)}

(***************************************************************************)
(* C31: selection is deterministic and single-valued: a call selects       *)
(* nothing when no entry is eligible and otherwise the entry of the        *)
(* maximum eligible version that comes first in manifest order, and two    *)
(* calls with the same manifest and current version select the same entry. *)
(***************************************************************************)
C31_SelectionDeterministic ==
    /\ sel.calls >= 1 =>
          IF BestAt(sel.updates, sel.currentVersion) = {}
          THEN sel.first = NoEntry
          ELSE \E i \in BestAt(sel.updates, sel.currentVersion) :
                  /\ \A j \in BestAt(sel.updates, sel.currentVersion) : i <= j
                  /\ sel.first = sel.updates[i]
    /\ sel.calls = 2 => sel.second = sel.first

\* two eligible entries of the highest version with different archives, after
\* an entry of a lower version: the first of the two is selected, twice
C31_Witness ==
    /\ sel.calls = 2
    /\ Len(sel.updates) = 3
    /\ sel.updates[1].version < sel.updates[2].version
    /\ sel.updates[2].version = sel.updates[3].version
    /\ sel.updates[2].download # sel.updates[3].download
    /\ Cardinality(BestAt(sel.updates, sel.currentVersion)) = 2
    /\ sel.first = sel.updates[2]
    /\ sel.second = sel.updates[2]

(***************************************************************************)
(* C32: no step of replace or of checkForUpdate deletes a backup snapshot: *)
(* from the moment createBackup returned, through clear, install,          *)
(* rollback, save and cleaning and after the call returned or raised, the  *)
(* snapshot of the call exists with the content of the bundle before the   *)
(* swap, and the call has added exactly this one snapshot.                 *)
(***************************************************************************)
C32_SnapshotKept ==
    /\ call.backupPath # 0 =>
          /\ Len(backups) = 1
          /\ call.backupPath = 1
          /\ Exists(backups[1])
          /\ backups[1] = hist.before
    /\ ("backup" \in hist.ran \ hist.failed) => call.backupPath # 0
    /\ (pc = "done" /\ Len(backups) > 0) => "backup" \in hist.ran

\* a rollback restored the bundle from the snapshot, which is still there
C32_Witness ==
    /\ pc = "done"
    /\ outcome.result = "raised"
    /\ "rollback" \in hist.ran \ hist.failed
    /\ call.backupPath = 1
    /\ NonEmptyDir(backups[1])
    /\ backups[1] = hist.before

\* the directory b holds the content c in full and nothing else, the "ota" key
\* of package.json apart
Holds(b, c) ==
    /\ b.kind = "dir"
    /\ c.kind = "dir"
    /\ Names(b) = Names(c)
    /\ \A n \in Names(c) \ {"package.json"} : b.entries[n] = c.entries[n]

\* both calls have finished
RaceDone == race.pc = <<"done", "done">>

\* call 1 and call 2 both past their removal before either copies: backup and
\* clear of 1, backup and clear of 2, install and save of 1, install and save of 2
Overlapped == <<1, 1, 2, 2, 1, 1, 2, 2>>

(***************************************************************************)
(* C33: replace takes no lock on the bundle path.  When two calls overlap  *)
(* so that both have removed the bundle before either copies, and their    *)
(* new contents differ in file names, both calls finish with the bundle    *)
(* directory holding files of both contents: it equals neither new content *)
(* in full nor the content before the swap.  After any interleaving the    *)
(* persisted version is one of the two selected versions.                  *)
(***************************************************************************)
C33_OverlapMixesContents ==
    /\ (RaceDone /\ race.trace = Overlapped /\ race.content[1] # race.content[2]) =>
          /\ ~Holds(bundle, race.content[1])
          /\ ~Holds(bundle, race.content[2])
          /\ ~Holds(bundle, race.before)
          /\ Names(bundle) = Names(race.content[1]) \cup Names(race.content[2])
    /\ RaceDone => getCurrentVersion(bundle) \in {race.version[1], race.version[2]}

\* the mix: a.txt of the first content beside c.txt of the second, version 2
C33_Witness ==
    /\ RaceDone
    /\ race.trace = Overlapped
    /\ NonEmptyDir(race.before)
    /\ race.content = <<ContentOne, ContentTwo>>
    /\ race.version = <<1, 2>>
    /\ HasFile(bundle, "a.txt")
    /\ HasFile(bundle, "c.txt")
    /\ ~Holds(bundle, ContentOne)
    /\ ~Holds(bundle, ContentTwo)
    /\ ~Holds(bundle, race.before)
    /\ getCurrentVersion(bundle) = 2

\* a step of the call other than the version save and the user's callbacks threw
StepFailed ==
    \/ hist.response = "error"
    \/ hist.body = "null"
    \/ hist.failed \cap {"download", "unpack", "backup", "clear", "install", "rollback",
                          "cleanupZip", "cleanupUnpacked"} # {}

(***************************************************************************)
(* C34: the promise returned by checkForUpdate never rejects: every error  *)
(* of the manifest request, the download, the extraction, replace or the   *)
(* cleaning step ends the call with the error status as its last status    *)
(* and updateFail as its last callback, and the call returns.              *)
(***************************************************************************)
C34_NeverRejects ==
    mode = "check" =>
        /\ pc # "rejected"
        /\ (pc = "done" /\ StepFailed) =>
              /\ statuses[Len(statuses)] = "error"
              /\ Len(callbacks) >= 1
              /\ callbacks[Len(callbacks)].name = "updateFail"

\* a manifest request that failed: reported, and the call returned
C34_Witness ==
    /\ CheckDone
    /\ hist.response = "error"
    /\ statuses[Len(statuses)] = "error"
    /\ Len(callbacks) = 1
    /\ callbacks[1].name = "updateFail"

(***************************************************************************)
(* C35: over checkForUpdate calls on one bundle, with or without the       *)
(* currentVersion option, with any manifest and with any step failing, the *)
(* value returned by getCurrentVersion never decreases: it is at the end   *)
(* of a call at least what it was at its start.                            *)
(***************************************************************************)
C35_VersionNeverDecreases ==
    CheckDone => getCurrentVersion(bundle) >= getCurrentVersion(hist.before)

(***************************************************************************)
(* C36: whenever removePath(path, retries, delay) returns without raising, *)
(* the path no longer exists, for every value of retries, 0 and negative   *)
(* values included.                                                        *)
(***************************************************************************)
C36_ReturnedMeansRemoved ==
    (rm.calls >= 1 /\ ~rm.first.threw) => ~Exists(rm.first.node)

(***************************************************************************)
(* C37: publishing is append-only: when a publish run completes, the saved *)
(* update.json holds every entry the manifest held before the run,         *)
(* unchanged and in the same order, followed by exactly one new entry with *)
(* enable true, also when reading the existing manifest failed with an     *)
(* error other than "no such key".                                         *)
(***************************************************************************)
C37_PublishAppendsOnly ==
    (pub.pc = "idle" /\ pub.completed) =>
        /\ Len(pub.manifest) = Len(pub.before) + 1
        /\ SubSeq(pub.manifest, 1, Len(pub.before)) = pub.before
        /\ pub.manifest[Len(pub.manifest)].enable

\* update has settled
UpdateDone == mode = "update" /\ pc = "done"

(***************************************************************************)
(* C38: update(url) runs download, unpack and replace in that order; when  *)
(* one of them fails it removes the downloaded archive and the extraction  *)
(* directory, ignoring removal errors, and rejects with the error of the   *)
(* failed step; it never writes the persisted OTA version.                 *)
(***************************************************************************)
C38_UpdateCleansUpAndRejects ==
    mode = "update" =>
        /\ "unpack" \in hist.ran => "download" \in hist.ran \ hist.failed
        /\ hist.ran \cap ReplaceSteps # {} => "unpack" \in hist.ran \ hist.failed
        /\ "save" \notin hist.ran
        /\ (pc = "done" /\ hist.failed \cap ({"download", "unpack"} \cup ReplaceSteps) # {}) =>
              /\ outcome.result = "raised"
              /\ outcome.at \in hist.failed
              /\ "catchZip" \notin hist.failed => zip.kind # "file" \/ zip.data.tag # "zip"
              /\ "catchUnpacked" \notin hist.failed => ~Exists(unpacked)

\* the top-level entries of the extraction directory
TopEntries == {hist.archive.entries[n] : n \in Names(hist.archive)}

=============================================================================
